---- MODULE Spec2Model ----
(***************************************************************************)
(* A model of DicomParser (src/src/parser.dicom.ts): the attribute         *)
(* resolvers over a parsed data set, the pixel locator and the pixel       *)
(* pipeline.  A data set is the tree the dicom-parser accessor exposes:    *)
(* typed reads by tag (string, floatString, intString, uint16, ...),       *)
(* which yield a value or undefined, and elements[tag], whose items are    *)
(* nested data sets.                                                        *)
(***************************************************************************)
EXTENDS Integers, Sequences, FiniteSets, TLC

VARIABLES
    dataSet,       \* the parsed data set the parser was constructed over
    call,          \* the last (or the pending) call: operation and frame index
    result,        \* what that call returned, or the error it threw
    pc,            \* "decoding" while extractPixelData awaits the codec
    codecCalls,    \* the calls of decode() made by the call
    routineCalls,  \* the calls of dicom-parser's frame routines made by the call
    imageFrame,    \* the frame the codec resolved with
    byteArray,     \* the bytes of the backing buffer of the data set
    files,         \* the files preloader was called with
    fileIndex,     \* the position in files of the file the loop is at
    seriesMap,     \* preloader's map from series UID to files, in insertion order
    errorLog,      \* the names of the files console.error was called for
    seriesArray    \* the series preloader resolved with

\* the state of a call of preloader
loadVars == <<files, fileIndex, seriesMap, errorLog, seriesArray>>

vars == <<dataSet, call, result, pc, codecCalls, routineCalls, imageFrame,
          byteArray, loadVars>>

\* Largest number of items of the per-frame functional group sequence, and
\* the largest frame index passed to a call.
MaxFrames == 2

\* Largest number of fragments of an encapsulated pixel-data element.
MaxFragments == 3

(***************************************************************************)
(* JavaScript values.  A string is the sequence of its backslash-separated *)
(* components, so the empty string is << >>.                               *)
(***************************************************************************)
Undefined == [t |-> "undefined"]
Null == [t |-> "null"]
Num(n) == [t |-> "number", v |-> n]
Str(s) == [t |-> "string", v |-> s]
Arr(a) == [t |-> "array", v |-> a]
Throw(name, detail) == [t |-> "throw", v |-> name, detail |-> detail]
Bool(b) == [t |-> "boolean", v |-> b]

\* ToBoolean, as used by ||, ! and if (...)
Truthy(x) ==
    CASE x.t = "undefined" -> FALSE
      [] x.t = "null" -> FALSE
      [] x.t = "number" -> x.v # 0
      [] x.t = "string" -> x.v # << >>
      [] OTHER -> TRUE

\* a || b
Or(a, b) == IF Truthy(a) THEN a ELSE b

\* a ?? b
Coalesce(a, b) == IF a.t \in {"undefined", "null"} THEN b ELSE a

\* parseFloat of one component of a decimal string
parseFloat(tok) ==
    CASE tok = "0" -> 0
      [] tok = "1" -> 1
      [] tok = "2" -> 2
      [] tok = "3" -> 3

\* s.split('\\').map(parseFloat) of a non-empty string
SplitParse(s) == Arr([i \in 1..Len(s.v) |-> parseFloat(s.v[i])])

(***************************************************************************)
(* Data sets.  vals holds the tags the typed reads find (a tag outside its *)
(* domain reads as undefined), seqs the sequence elements; an item of a    *)
(* sequence is a record whose dataSet is a data set or undefined.          *)
(***************************************************************************)
NoVals == [tg \in {} |-> Undefined]
NoSeqs == [tg \in {} |-> << >>]
DS(vals, seqs) == [t |-> "dataSet", vals |-> vals, seqs |-> seqs]
EmptyDS == DS(NoVals, NoSeqs)
Item(ds) == [dataSet |-> ds]

\* one tag holding v (no tag when v is undefined)
OneVal(tag, v) == [tg \in (IF v.t = "undefined" THEN {} ELSE {tag}) |-> v]
OneSeq(tag, items) == [tg \in {tag} |-> items]

\* dataSet.string(tag), floatString, intString, uint16, uint32
Read(ds, tag) == IF tag \in DOMAIN ds.vals THEN ds.vals[tag] ELSE Undefined

\* element?.items && element.items[index]?.dataSet
HasItemDataSet(ds, tag, index) ==
    /\ tag \in DOMAIN ds.seqs
    /\ index + 1 \in 1..Len(ds.seqs[tag])
    /\ ds.seqs[tag][index + 1].dataSet.t = "dataSet"

ItemDataSet(ds, tag, index) == ds.seqs[tag][index + 1].dataSet

(***************************************************************************)
(* Private resolvers of DicomParser.                                       *)
(***************************************************************************)
\* the data set of item 0 of `subsequence` under item `index` of `sequence`
_findInGroupSequence(sequence, subsequence, index) ==
    IF HasItemDataSet(dataSet, sequence, index)
    THEN LET group == ItemDataSet(dataSet, sequence, index) IN
         IF HasItemDataSet(group, subsequence, 0)
         THEN ItemDataSet(group, subsequence, 0)
         ELSE Null
    ELSE Null

_findStringInGroupSequence(sequence, subsequence, tag, index) ==
    LET ds == _findInGroupSequence(sequence, subsequence, index) IN
    Coalesce(IF ds.t = "dataSet" THEN Read(ds, tag) ELSE Undefined, Null)

_findStringInFrameGroupSequence(subsequence, tag, index) ==
    Or(_findStringInGroupSequence("x52009229", subsequence, tag, 0),
       _findStringInGroupSequence("x52009230", subsequence, tag, index))

_findStringInSequence(sequenceTag, tag) ==
    IF HasItemDataSet(dataSet, sequenceTag, 0)
    THEN Coalesce(Read(ItemDataSet(dataSet, sequenceTag, 0), tag), Null)
    ELSE Null

_findStringEverywhere(subsequence, tag, index) ==
    LET inGroups == _findStringInFrameGroupSequence(subsequence, tag, index)
        inPet == IF ~Truthy(inGroups)
                 THEN _findStringInSequence("x00540022", tag)
                 ELSE inGroups
    IN  IF ~Truthy(inPet) THEN Coalesce(Read(dataSet, tag), Null) ELSE inPet

\* as _findFloatStringInGroupSequence, but the group is consulted first and
\* the flat tag only when the group has no value
GroupBeforeFlatTag(sequence, subsequence, tag, index) ==
    LET dataInGroupSequence == Read(dataSet, tag)
        groupSequence == _findInGroupSequence(sequence, subsequence, index)
    IN  IF groupSequence.t = "dataSet" /\ Read(groupSequence, tag).t # "undefined"
        THEN Read(groupSequence, tag)
        ELSE Coalesce(dataInGroupSequence, Null)

_findFloatStringInGroupSequence(sequence, subsequence, tag, index) ==
    LET dataInGroupSequence == Read(dataSet, tag)
        groupSequence == _findInGroupSequence(sequence, subsequence, index)
    IN  IF dataInGroupSequence.t = "undefined" /\ groupSequence.t = "dataSet"
        THEN Coalesce(Read(groupSequence, tag), Null)
        ELSE Coalesce(dataInGroupSequence, Null)

_findFloatStringInFrameGroupSequence(subsequence, tag, index) ==
    Or(_findFloatStringInGroupSequence("x52009229", subsequence, tag, 0),
       _findFloatStringInGroupSequence("x52009230", subsequence, tag, index))

(***************************************************************************)
(* Per-frame accessors resolved through the chains above.                  *)
(***************************************************************************)
sopInstanceUID(frameIndex) ==
    _findStringEverywhere("x2005140f", "x00080018", frameIndex)

imageOrientation(frameIndex) ==
    LET s == _findStringEverywhere("x00209116", "x00200037", frameIndex) IN
    IF Truthy(s) THEN SplitParse(s) ELSE Null

imagePosition(frameIndex) ==
    LET s == _findStringEverywhere("x00209113", "x00200032", frameIndex) IN
    IF Truthy(s) THEN SplitParse(s) ELSE Null

pixelSpacing(frameIndex) ==
    LET value1 == _findStringEverywhere("x00289110", "x00280030", frameIndex)
        value2 == Read(dataSet, "x00181164")
        spacing == IF Truthy(value1) THEN value1
                   ELSE IF Truthy(value2) THEN value2 ELSE Null
    IN  IF Truthy(spacing)
        THEN IF Len(spacing.v) # 2 THEN Null ELSE SplitParse(spacing)
        ELSE Null

rescaleIntercept(frameIndex) ==
    _findFloatStringInFrameGroupSequence("x00289145", "x00281052", frameIndex)

rescaleSlope(frameIndex) ==
    _findFloatStringInFrameGroupSequence("x00289145", "x00281053", frameIndex)

windowCenter(frameIndex) ==
    _findFloatStringInFrameGroupSequence("x00289132", "x00281050", frameIndex)

windowWidth(frameIndex) ==
    _findFloatStringInFrameGroupSequence("x00289132", "x00281051", frameIndex)

sliceThickness(frameIndex) ==
    _findFloatStringInFrameGroupSequence("x00289110", "x00180050", frameIndex)

(***************************************************************************)
(* Data sets the resolvers are run on: one attribute (sub-sequence, tag)   *)
(* populated at any combination of its tiers, every other tag absent.      *)
(***************************************************************************)
\* frame indexes a caller passes, one of them past the last per-frame item
FrameIndexes == 0..MaxFrames

StrVals == {Str(<< >>), Str(<<"1">>), Str(<<"1", "2">>)}
NumVals == {Num(0), Num(1), Num(2)}

SeqsUpTo(S, n) == UNION {[1..m -> S] : m \in 0..n}

Absent == [present |-> FALSE, items |-> << >>]
Present(items) == [present |-> TRUE, items |-> items]

\* the data set of one item of `subsequence`, holding `tag`
Leaf(tag, v) == DS(OneVal(tag, v), NoSeqs)

\* items of a functional group sequence: without the sub-sequence, or with
\* the sub-sequence whose item 0 holds the tag (or lacks it)
GroupItems(subsequence, tag, Vals) ==
    {Item(EmptyDS)} \cup
    {Item(DS(NoVals, OneSeq(subsequence, <<Item(Leaf(tag, v))>>))) :
        v \in Vals \cup {Undefined}}

SharedOptions(subsequence, tag, Vals) ==
    {Absent, Present(<< >>), Present(<<Item(Undefined)>>)} \cup
    {Present(<<g>>) : g \in GroupItems(subsequence, tag, Vals)}

PerFrameOptions(subsequence, tag, Vals) ==
    {Absent} \cup
    {Present(s) : s \in SeqsUpTo(GroupItems(subsequence, tag, Vals), MaxFrames)}

PetOptions(tag, Vals) ==
    {Absent} \cup {Present(<<Item(Leaf(tag, v))>>) : v \in Vals}

\* the root data set: its own tags and the three sequences that are present
Root(vals, shared, perFrame, pet) ==
    LET opt == [tg \in {"x52009229", "x52009230", "x00540022"} |->
                    CASE tg = "x52009229" -> shared
                      [] tg = "x52009230" -> perFrame
                      [] tg = "x00540022" -> pet]
    IN  DS(vals, [tg \in {x \in DOMAIN opt : opt[x].present} |-> opt[tg].items])

\* two root tags (each absent when its value is undefined)
TwoVals(tagA, a, tagB, b) ==
    [tg \in (IF a.t = "undefined" THEN {} ELSE {tagA}) \cup
            (IF b.t = "undefined" THEN {} ELSE {tagB}) |->
        IF tg = tagA THEN a ELSE b]

StringAttributes ==
    { [name |-> "sopInstanceUID", subsequence |-> "x2005140f", tag |-> "x00080018"],
      [name |-> "imageOrientation", subsequence |-> "x00209116", tag |-> "x00200037"],
      [name |-> "imagePosition", subsequence |-> "x00209113", tag |-> "x00200032"],
      [name |-> "pixelSpacing", subsequence |-> "x00289110", tag |-> "x00280030"] }

FloatAttributes ==
    { [name |-> "rescaleIntercept", subsequence |-> "x00289145", tag |-> "x00281052"],
      [name |-> "rescaleSlope", subsequence |-> "x00289145", tag |-> "x00281053"],
      [name |-> "windowCenter", subsequence |-> "x00289132", tag |-> "x00281050"],
      [name |-> "windowWidth", subsequence |-> "x00289132", tag |-> "x00281051"],
      [name |-> "sliceThickness", subsequence |-> "x00289110", tag |-> "x00180050"] }

NoCall == [op |-> "none", frameIndex |-> 0]
NoResult == [t |-> "none"]

\* the backing buffer as parsed: the bytes before the pixel data and the
\* bytes of the pixel-data element, if there is one
BackingBytes ==
    LET element == IF "x7fe00010" \in DOMAIN dataSet.vals
                   THEN dataSet.vals["x7fe00010"] ELSE Undefined
    IN  IF element.t = "element"
        THEN [i \in 1..(element.dataOffset + element.length) |-> 0]
        ELSE << >>

\* preloader has not been called
NoFiles ==
    /\ files = << >>
    /\ fileIndex = 1
    /\ seriesMap = << >>
    /\ errorLog = << >>
    /\ seriesArray = NoResult

ParserIdle ==
    /\ call = NoCall
    /\ result = NoResult
    /\ pc = "idle"
    /\ codecCalls = << >>
    /\ routineCalls = << >>
    /\ imageFrame = NoResult
    /\ byteArray = BackingBytes

Idle == ParserIdle /\ NoFiles

Returns(op, frameIndex, value) ==
    /\ call' = [op |-> op, frameIndex |-> frameIndex]
    /\ result' = value
    /\ UNCHANGED <<dataSet, pc, codecCalls, routineCalls, imageFrame, byteArray, loadVars>>

(***************************************************************************)
(* The string accessors on a parser built over a string attribute.         *)
(***************************************************************************)
InitStr ==
    /\ \E a \in StringAttributes :
       \E shared \in SharedOptions(a.subsequence, a.tag, StrVals),
          perFrame \in PerFrameOptions(a.subsequence, a.tag, StrVals),
          pet \in PetOptions(a.tag, StrVals),
          root \in StrVals \cup {Undefined},
          spacing \in {Undefined, Str(<<"2", "1">>)} :
            /\ (spacing # Undefined => a.tag = "x00280030")
            /\ dataSet = Root(TwoVals(a.tag, root, "x00181164", spacing),
                              shared, perFrame, pet)
    /\ Idle

SopInstanceUID ==
    \E k \in FrameIndexes : Returns("sopInstanceUID", k, sopInstanceUID(k))

ImageOrientation ==
    \E k \in FrameIndexes : Returns("imageOrientation", k, imageOrientation(k))

ImagePosition ==
    \E k \in FrameIndexes : Returns("imagePosition", k, imagePosition(k))

PixelSpacing ==
    \E k \in FrameIndexes : Returns("pixelSpacing", k, pixelSpacing(k))

NextStr == SopInstanceUID \/ ImageOrientation \/ ImagePosition \/ PixelSpacing

SpecStr == InitStr /\ [][NextStr]_vars

(***************************************************************************)
(* The numeric accessors on a parser built over a numeric attribute.       *)
(***************************************************************************)
InitNum ==
    /\ \E a \in FloatAttributes :
       \E shared \in SharedOptions(a.subsequence, a.tag, NumVals),
          perFrame \in PerFrameOptions(a.subsequence, a.tag, NumVals),
          root \in NumVals \cup {Undefined} :
            dataSet = Root(OneVal(a.tag, root), shared, perFrame, Absent)
    /\ Idle

RescaleIntercept ==
    \E k \in FrameIndexes : Returns("rescaleIntercept", k, rescaleIntercept(k))

RescaleSlope ==
    \E k \in FrameIndexes : Returns("rescaleSlope", k, rescaleSlope(k))

WindowCenter ==
    \E k \in FrameIndexes : Returns("windowCenter", k, windowCenter(k))

WindowWidth ==
    \E k \in FrameIndexes : Returns("windowWidth", k, windowWidth(k))

SliceThickness ==
    \E k \in FrameIndexes : Returns("sliceThickness", k, sliceThickness(k))

NextNum ==
    RescaleIntercept \/ RescaleSlope \/ WindowCenter \/ WindowWidth \/ SliceThickness

SpecNum == InitNum /\ [][NextNum]_vars

(***************************************************************************)
(* Per-frame accessors that walk the per-frame functional group sequence   *)
(* themselves.                                                             *)
(***************************************************************************)
referencedSegmentNumber(frameIndex) ==
    LET referencedSegmentNumberElement ==
            _findInGroupSequence("x52009230", "x0062000a", frameIndex)
    IN  IF referencedSegmentNumberElement.t = "dataSet"
        THEN Read(referencedSegmentNumberElement, "x0062000b")
        ELSE Num(-1)

instanceNumber(frameIndex) ==
    IF HasItemDataSet(dataSet, "x52009230", frameIndex)
    THEN LET frame == ItemDataSet(dataSet, "x52009230", frameIndex) IN
         IF HasItemDataSet(frame, "x2005140f", 0)
         THEN Coalesce(Read(ItemDataSet(frame, "x2005140f", 0), "x00200013"), Null)
         ELSE Coalesce(Read(dataSet, "x00200013"), Null)
    ELSE Coalesce(Read(dataSet, "x00200013"), Null)

\* item 0 of the frame content sequence (x00209111) of per-frame item
\* frameIndex, or null
FrameContent(frameIndex) ==
    IF HasItemDataSet(dataSet, "x52009230", frameIndex)
    THEN LET frame == ItemDataSet(dataSet, "x52009230", frameIndex) IN
         IF HasItemDataSet(frame, "x00209111", 0)
         THEN ItemDataSet(frame, "x00209111", 0)
         ELSE Null
    ELSE Null

\* the element x00209157 is read as length / 4 unsigned 32-bit values
dimensionIndexValues(frameIndex) ==
    LET content == FrameContent(frameIndex) IN
    IF content.t = "dataSet" /\ Read(content, "x00209157").t # "undefined"
    THEN Read(content, "x00209157")
    ELSE Null

inStackPositionNumber(frameIndex) ==
    LET content == FrameContent(frameIndex) IN
    IF content.t = "dataSet"
    THEN Coalesce(Read(content, "x00209057"), Null)
    ELSE Null

\* Number.prototype.toString of the small integers an intString can hold
toString(n) ==
    CASE n.v = 0 -> Str(<<"0">>)
      [] n.v = 1 -> Str(<<"1">>)
      [] n.v = 2 -> Str(<<"2">>)
      [] n.v = 3 -> Str(<<"3">>)

stackID(frameIndex) ==
    LET content == FrameContent(frameIndex)
        id == IF content.t = "dataSet" THEN Read(content, "x00209056") ELSE Undefined
    IN  Coalesce(IF id.t = "undefined" THEN Undefined ELSE toString(id), Null)

(***************************************************************************)
(* Data sets for these accessors: an instance number at the root and under *)
(* the per-frame items, a referenced segment number, or a frame content    *)
(* item.                                                                   *)
(***************************************************************************)
\* the tags of f whose value is not undefined
Defined(f) == [tg \in {x \in DOMAIN f : f[x].t # "undefined"} |-> f[tg]]

InstanceItems ==
    {Item(Undefined), Item(EmptyDS), Item(DS(NoVals, OneSeq("x2005140f", << >>)))}
    \cup GroupItems("x2005140f", "x00200013", {Num(1), Num(2)})

SegmentItems == GroupItems("x0062000a", "x0062000b", {Num(1), Num(2)})

FrameContentItems ==
    {Item(EmptyDS)} \cup
    {Item(DS(NoVals, OneSeq("x00209111", <<Item(DS(Defined(f), NoSeqs))>>))) :
        f \in [x00209057 : {Undefined, Num(1)},
               x00209056 : {Undefined, Num(2)},
               x00209157 : {Undefined, Arr(<<1, 2>>)}]}

InitFrame ==
    /\ \/ \E root \in {Undefined, Num(0), Num(3)},
             perFrame \in {Absent} \cup
                 {Present(q) : q \in SeqsUpTo(InstanceItems, MaxFrames)} :
                dataSet = Root(OneVal("x00200013", root), Absent, perFrame, Absent)
       \/ \E perFrame \in {Absent} \cup
                 {Present(q) : q \in SeqsUpTo(SegmentItems, MaxFrames)} :
                dataSet = Root(NoVals, Absent, perFrame, Absent)
       \/ \E perFrame \in {Present(q) : q \in SeqsUpTo(FrameContentItems, MaxFrames)} :
                dataSet = Root(NoVals, Absent, perFrame, Absent)
    /\ Idle

ReferencedSegmentNumber ==
    \E k \in FrameIndexes :
        Returns("referencedSegmentNumber", k, referencedSegmentNumber(k))

InstanceNumber ==
    \E k \in FrameIndexes : Returns("instanceNumber", k, instanceNumber(k))

DimensionIndexValues ==
    \E k \in FrameIndexes : Returns("dimensionIndexValues", k, dimensionIndexValues(k))

InStackPositionNumber ==
    \E k \in FrameIndexes : Returns("inStackPositionNumber", k, inStackPositionNumber(k))

StackID ==
    \E k \in FrameIndexes : Returns("stackID", k, stackID(k))

NextFrame ==
    \/ ReferencedSegmentNumber
    \/ InstanceNumber
    \/ DimensionIndexValues
    \/ InStackPositionNumber
    \/ StackID

SpecFrame == InitFrame /\ [][NextFrame]_vars

(***************************************************************************)
(* The pixel locator.  The pixel-data element x7fe00010 is read through    *)
(* elements; its fragments and basicOffsetTable are arrays or undefined.   *)
(* The three frame routines are dicom-parser's: the model records each     *)
(* call the code makes and takes what the routine yields as its outcome.   *)
(***************************************************************************)
Element(dataOffset, length, fragments, basicOffsetTable) ==
    [t |-> "element", dataOffset |-> dataOffset, length |-> length,
     fragments |-> fragments, basicOffsetTable |-> basicOffsetTable]

\* x?.length of an array that may be undefined, of an element that may be
LengthOf(x) == IF x.t = "array" THEN Num(Len(x.v)) ELSE Undefined

RoutineCall(routine, element, frameIndex, table) ==
    [routine |-> routine, element |-> element, frameIndex |-> frameIndex,
     table |-> table]

Outcome(c) == [t |-> "outcome", of |-> c]

\* as framesAreFragmented, but the answer is the equality of the two counts
FramesEqualFragments ==
    LET numberOfFrames == Read(dataSet, "x00280008")
        pixelDataElement == Read(dataSet, "x7fe00010")
    IN  numberOfFrames =
            (IF pixelDataElement.t = "element"
             THEN LengthOf(pixelDataElement.fragments) ELSE Undefined)

framesAreFragmented ==
    LET numberOfFrames == Read(dataSet, "x00280008")
        pixelDataElement == Read(dataSet, "x7fe00010")
    IN  numberOfFrames #
            (IF pixelDataElement.t = "element"
             THEN LengthOf(pixelDataElement.fragments) ELSE Undefined)

\* the routine calls getEncapsulatedImageFrame makes, in order; it returns
\* the outcome of the last one
getEncapsulatedImageFrame(frameIndex) ==
    LET element == Read(dataSet, "x7fe00010")
        synthesize == RoutineCall("createJPEGBasicOffsetTable", element, 0, "none")
    IN  IF element.t = "element" /\ Truthy(LengthOf(element.basicOffsetTable))
        THEN <<RoutineCall("readEncapsulatedImageFrame", element, frameIndex, "stored")>>
        ELSE IF framesAreFragmented
        THEN <<synthesize,
               RoutineCall("readEncapsulatedImageFrame", element, frameIndex,
                           "synthesized")>>
        ELSE <<RoutineCall("readEncapsulatedPixelDataFromFragments", element,
                           frameIndex, "none")>>

FramesAreFragmented ==
    /\ pc = "idle"
    /\ call' = [op |-> "framesAreFragmented", frameIndex |-> 0]
    /\ result' = Bool(framesAreFragmented)
    /\ routineCalls' = << >>
    /\ codecCalls' = << >>
    /\ imageFrame' = NoResult
    /\ UNCHANGED <<dataSet, pc, byteArray, loadVars>>

GetEncapsulatedImageFrame ==
    /\ pc = "idle"
    /\ \E k \in FrameIndexes :
        LET calls == getEncapsulatedImageFrame(k) IN
        /\ call' = [op |-> "getEncapsulatedImageFrame", frameIndex |-> k]
        /\ routineCalls' = calls
        /\ result' = Outcome(calls[Len(calls)])
    /\ codecCalls' = << >>
    /\ imageFrame' = NoResult
    /\ UNCHANGED <<dataSet, pc, byteArray, loadVars>>

\* n fragments of two bytes each
Fragments(n) == Arr([i \in 1..n |-> [offset |-> 2 * (i - 1), length |-> 2]])

\* a basic offset table of n frame offsets
OffsetTable(n) == Arr([i \in 1..n |-> 2 * (i - 1)])

PixelElements ==
    {Undefined} \cup
    {Element(16, 8, fragments, table) :
        fragments \in {Undefined} \cup {Fragments(n) : n \in 0..MaxFragments},
        table \in {Undefined} \cup {OffsetTable(n) : n \in 0..2}}

InitLocate ==
    /\ \E element \in PixelElements,
          numberOfFrames \in {Undefined, Num(1), Num(2), Num(3)} :
            dataSet = DS(TwoVals("x7fe00010", element, "x00280008", numberOfFrames),
                         NoSeqs)
    /\ Idle

NextLocate == GetEncapsulatedImageFrame \/ FramesAreFragmented

SpecLocate == InitLocate /\ [][NextLocate]_vars

(***************************************************************************)
(* The pixel pipeline: extractPixelData awaits _decodePixelData, which     *)
(* awaits the codec, and then normalizes the colour layout.                *)
(***************************************************************************)
photometricInterpretation == Coalesce(Read(dataSet, "x00280004"), Null)
planarConfiguration == Coalesce(Read(dataSet, "x00280006"), Null)
samplesPerPixel == Coalesce(Read(dataSet, "x00280002"), Null)
transferSyntaxUID == Coalesce(Read(dataSet, "x00020010"), Null)
rows == Read(dataSet, "x00280010")
columns == Read(dataSet, "x00280011")
bitsAllocated == Read(dataSet, "x00280100")
pixelRepresentation == Read(dataSet, "x00280103")

ThreeChannelInterpretations ==
    {Str(<<"RGB">>), Str(<<"PALETTE COLOR">>), Str(<<"YBR_FULL">>),
     Str(<<"YBR_FULL_422">>), Str(<<"YBR_PARTIAL_422">>),
     Str(<<"YBR_PARTIAL_420">>), Str(<<"YBR_RCT">>)}

numberOfChannels ==
    IF photometricInterpretation \in ThreeChannelInterpretations THEN 3 ELSE 1

_interpretAsRGB(interpretation) ==
    interpretation \in {Str(<<"RGB">>), Str(<<"YBR_RCT">>), Str(<<"YBR_ICT">>),
                        Str(<<"YBR_FULL_422">>)}

TypedArray(kind, samples) == [t |-> "typedArray", kind |-> kind, v |-> samples]

ConvertibleKinds == {"Int8Array", "Uint8Array", "Int16Array", "Uint16Array"}

\* the number of bits of an element of a typed array, and whether it is signed
BitsOf(kind) == IF kind \in {"Int8Array", "Uint8Array"} THEN 8 ELSE 16
SignedKind(kind) == kind \in {"Int8Array", "Int16Array"}

\* the quotient p / q (q > 0) truncated towards zero
Truncate(p, q) == IF p >= 0 THEN p \div q ELSE -((-p) \div q)

\* storing the integer n into an element of a typed array of this kind
Store(kind, n) ==
    LET m == n % (2 ^ BitsOf(kind)) IN
    IF SignedKind(kind) /\ m >= 2 ^ (BitsOf(kind) - 1)
    THEN m - 2 ^ BitsOf(kind)
    ELSE m

\* The plane-major to pixel-major copy.  numPixels is length / 3: the loop
\* runs while i < numPixels, a read at a fractional or out-of-range index
\* yields undefined, which is stored as 0, and a write past the end of the
\* new array is dropped.
Deinterleave(in) ==
    LET n == Len(in) IN
    [j \in 1..n |->
        LET i == (j - 1) \div 3
            c == (j - 1) % 3
        IN  IF c = 0 THEN in[i + 1]
            ELSE IF n % 3 = 0 THEN in[i + c * (n \div 3) + 1]
            ELSE 0]

\* The YBR_FULL to RGB conversion of pixel-major samples; a component read
\* past the end is undefined, the arithmetic on it is NaN, stored as 0.
\* The products by 1.402, 0.34414, 0.71414 and 1.772 are taken exactly.
ConvertYBRFull(kind, in) ==
    LET n == Len(in) IN
    [j \in 1..n |->
        LET i == (j - 1) \div 3
            c == (j - 1) % 3
            y == in[3 * i + 1]
            hasCb == 3 * i + 2 <= n
            hasCr == 3 * i + 3 <= n
            cb == IF hasCb THEN in[3 * i + 2] ELSE 0
            cr == IF hasCr THEN in[3 * i + 3] ELSE 0
        IN  CASE c = 0 ->
                    IF hasCr
                    THEN Store(kind, Truncate(1000 * y + 1402 * (cr - 128), 1000))
                    ELSE 0
              [] c = 1 ->
                    IF hasCb /\ hasCr
                    THEN Store(kind, Truncate(100000 * y - 34414 * (cb - 128)
                                              - 71414 * (cr - 128), 100000))
                    ELSE 0
              [] c = 2 ->
                    IF hasCb
                    THEN Store(kind, Truncate(1000 * y + 1772 * (cb - 128), 1000))
                    ELSE 0]

_convertColorSpace(uncompressedData) ==
    LET interpretation == photometricInterpretation
        planar == IF planarConfiguration = Null THEN Num(0) ELSE planarConfiguration
        interpretAsRGB == IF Truthy(interpretation)
                          THEN _interpretAsRGB(interpretation) ELSE FALSE
        kind == uncompressedData.kind
    IN  IF interpretAsRGB /\ planar = Num(0)
        THEN uncompressedData
        ELSE IF interpretAsRGB /\ planar = Num(1)
        THEN IF kind \in ConvertibleKinds
             THEN TypedArray(kind, Deinterleave(uncompressedData.v))
             ELSE Throw("Unsupported typed array", Null)
        ELSE IF interpretation = Str(<<"YBR_FULL">>)
        THEN IF kind \in ConvertibleKinds
             THEN TypedArray(kind, ConvertYBRFull(kind, uncompressedData.v))
             ELSE Throw("unsuported typed array", Null)
        ELSE Throw("photometric interpolation not supported", interpretation)

\* the call of decode() that _decodePixelData makes: a view of the whole
\* pixel-data element, the format hints and the transfer syntax
_decodePixelData(_frameIndex) ==
    LET pixelDataElement == Read(dataSet, "x7fe00010") IN
    [pixelData |-> [byteOffset |-> pixelDataElement.dataOffset,
                    length |-> pixelDataElement.length],
     imageInfo |-> [rows |-> rows, columns |-> columns,
                    bitsAllocated |-> bitsAllocated,
                    samplesPerPixel |-> samplesPerPixel,
                    signed |-> (pixelRepresentation = Num(1))],
     transferSyntaxUID |-> transferSyntaxUID]

\* extractPixelData(k) up to its await: reading dataOffset of a missing
\* pixel-data element is a TypeError, which rejects the call
ExtractPixelData ==
    /\ pc = "idle"
    /\ \E k \in FrameIndexes :
        /\ call' = [op |-> "extractPixelData", frameIndex |-> k]
        /\ IF Read(dataSet, "x7fe00010").t = "element"
           THEN /\ codecCalls' = <<_decodePixelData(k)>>
                /\ pc' = "decoding"
                /\ result' = NoResult
           ELSE /\ codecCalls' = << >>
                /\ pc' = "idle"
                /\ result' = Throw("TypeError", Null)
    /\ routineCalls' = << >>
    /\ imageFrame' = NoResult
    /\ UNCHANGED <<dataSet, byteArray, loadVars>>

\* frames the codec resolves with
DecodedFrames ==
    {TypedArray(kind, samples) :
        kind \in {"Uint8Array", "Int16Array", "Float32Array"},
        samples \in {<<5, 6>>, <<1, 2, 3, 4, 5, 6>>, <<128, 128, 128>>,
                     <<255, 0, 255>>}}

\* as extractPixelData after the await, but a failed colour conversion is
\* recovered from by returning the decoded samples
RecoverFromConversionError(decompressedData) ==
    IF numberOfChannels > 1 /\ _convertColorSpace(decompressedData).t # "throw"
    THEN _convertColorSpace(decompressedData)
    ELSE decompressedData

\* extractPixelData after the await of _decodePixelData
extractPixelData(decompressedData) ==
    IF numberOfChannels > 1
    THEN _convertColorSpace(decompressedData)
    ELSE decompressedData

\* the codec resolves: the rest of extractPixelData runs
DecodeResolves ==
    /\ pc = "decoding"
    /\ \E decompressedData \in DecodedFrames :
        /\ imageFrame' = decompressedData
        /\ result' = extractPixelData(decompressedData)
    /\ pc' = "idle"
    /\ UNCHANGED <<dataSet, call, codecCalls, routineCalls, byteArray, loadVars>>

\* The codec writes into the bytes it was handed.  They are a Uint8Array
\* over byteArray.buffer at (byteOffset, length), a view and not a copy, so
\* the write lands in the backing buffer.
CodecWritesInput ==
    /\ pc = "decoding"
    /\ LET view == codecCalls[1].pixelData
           written == [i \in DOMAIN byteArray |->
                          IF i - 1 \in view.byteOffset..(view.byteOffset + view.length - 1)
                          THEN 255 ELSE byteArray[i]]
       IN  /\ written # byteArray
           /\ byteArray' = written
    /\ UNCHANGED <<dataSet, call, result, pc, codecCalls, routineCalls, imageFrame, loadVars>>

\* the codec rejects: the rejection is the call's
DecodeRejects ==
    /\ pc = "decoding"
    /\ result' = Throw("decode", transferSyntaxUID)
    /\ pc' = "idle"
    /\ UNCHANGED <<dataSet, call, codecCalls, routineCalls, imageFrame, byteArray, loadVars>>

PhotometricInterpretations ==
    {Undefined, Str(<<"MONOCHROME2">>), Str(<<"PALETTE COLOR">>), Str(<<"RGB">>),
     Str(<<"YBR_FULL">>), Str(<<"YBR_FULL_422">>), Str(<<"YBR_PARTIAL_422">>),
     Str(<<"YBR_PARTIAL_420">>), Str(<<"YBR_RCT">>), Str(<<"YBR_ICT">>)}

\* bytes of one native frame
FrameBytes(bits, r, c, samples) == (bits * r * c * samples) \div 8

\* the pixel-data element of `frames` frames: missing, native, or
\* encapsulated with one fragment for each frame and an empty offset table
PixelDataOf(frames, frameBytes) ==
    {Undefined,
     Element(16, frames * frameBytes, Undefined, Undefined),
     Element(16, 2 * frames, Fragments(frames), OffsetTable(0))}

InitPixel ==
    /\ \E numberOfFrames \in {Undefined, Num(1), Num(2)},
          c \in {1, 2},
          bits \in {8, 16},
          samples \in {1, 3},
          interpretation \in PhotometricInterpretations,
          planar \in {Undefined, Num(0), Num(1), Num(2)},
          representation \in {Num(0), Num(1)} :
       \E element \in PixelDataOf(IF numberOfFrames = Undefined THEN 1
                                  ELSE numberOfFrames.v,
                                  FrameBytes(bits, 1, c, samples)) :
            dataSet = DS(Defined([x00020010 |-> Str(<<"1.2.840.10008.1.2.1">>),
                                  x7fe00010 |-> element,
                                  x00280008 |-> numberOfFrames,
                                  x00280010 |-> Num(1),
                                  x00280011 |-> Num(c),
                                  x00280100 |-> Num(bits),
                                  x00280002 |-> Num(samples),
                                  x00280004 |-> interpretation,
                                  x00280006 |-> planar,
                                  x00280103 |-> representation]),
                         NoSeqs)
    /\ Idle

NextPixel ==
    \/ ExtractPixelData
    \/ DecodeResolves
    \/ DecodeRejects
    \/ CodecWritesInput
    \/ GetEncapsulatedImageFrame

SpecPixel == InitPixel /\ [][NextPixel]_vars

(***************************************************************************)
(* The series grouper and sorter: preloader and sortDicomFiles.            *)
(***************************************************************************)

\* the largest number of files preloader is called with
MaxFiles == 3

Unreadable == [t |-> "unreadable"]    \* file.arrayBuffer() rejects
NotDicom == [t |-> "notDicom"]        \* parseDicom throws

\* the bytes of a file that parses to these tags
Content(uid, location, position, number, sop) ==
    DS(Defined([x0020000e |-> uid,
                x00080018 |-> sop,
                x00201041 |-> location,
                x00200032 |-> position,
                x00200013 |-> number]), NoSeqs)

SortKeys == {Undefined, Num(1), Num(2)}

FileContents ==
    {Unreadable, NotDicom}
    \cup {Content(Str(<<"1">>), location, Undefined, number, Undefined) :
            location \in SortKeys, number \in SortKeys}
    \cup {Content(Str(<<"1">>), Undefined, Str(<<"0", "0", "1">>), Num(2), Undefined),
          Content(Str(<<"1">>), Num(2), Str(<<"0", "0", "2">>), Undefined, Undefined),
          Content(Str(<<"1">>), Undefined, Str(<<"0", "0">>), Undefined, Undefined),
          Content(Str(<<"2">>), Num(1), Undefined, Num(1), Str(<<"3">>)),
          Content(Undefined, Num(1), Undefined, Undefined, Undefined),
          Content(Str(<< >>), Undefined, Undefined, Num(1), Undefined)}

\* a File: its name (the position it has in the input) and what it holds
File(name, content) == [name |-> name, content |-> content]

\* as parseDicom, but a file that cannot be read or parsed yields an empty
\* data set
ParseYieldsEmptyDataSet(file) ==
    IF file.content.t = "dataSet" THEN file.content ELSE EmptyDS

\* dicomParser.parseDicom(new Uint8Array(await file.arrayBuffer()))
parseDicom(file) ==
    IF file.content.t = "dataSet"
    THEN file.content
    ELSE Throw("Error parsing DICOM file", file.name)

\* as seriesUID, but without the default
SeriesUIDOrUndefined(parsed) == Read(parsed, "x0020000e")

\* dataSet.string('x0020000e') || 'unknown'
seriesUID(parsed) == Or(Read(parsed, "x0020000e"), Str(<<"unknown">>))

\* dataSet.string('x00200032')?.split('\\').map(parseFloat)[2]
imagePositionZ(parsed) ==
    LET position == Read(parsed, "x00200032") IN
    IF position.t = "undefined"
    THEN Undefined
    ELSE LET parts == SplitParse(position).v
         IN  IF Len(parts) >= 3 THEN Num(parts[3]) ELSE Undefined

\* the DicomFile preloader builds for a parsed file
DicomFile(file, parsed) ==
    [file |-> file,
     SOPInstanceUID |-> Or(Read(parsed, "x00080018"), Str(<<"unknown">>)),
     sliceLocation |-> Read(parsed, "x00201041"),
     imagePositionZ |-> imagePositionZ(parsed),
     instanceNumber |-> Read(parsed, "x00200013")]

\* as the comparator, but with the first tier only
SliceLocationOnly(a, b) ==
    IF a.sliceLocation # Undefined /\ b.sliceLocation # Undefined
    THEN a.sliceLocation.v - b.sliceLocation.v
    ELSE 0

\* the comparator of sortDicomFiles
compare(a, b) ==
    IF a.sliceLocation # Undefined /\ b.sliceLocation # Undefined
    THEN a.sliceLocation.v - b.sliceLocation.v
    ELSE IF a.imagePositionZ # Undefined /\ b.imagePositionZ # Undefined
    THEN a.imagePositionZ.v - b.imagePositionZ.v
    ELSE IF a.instanceNumber # Undefined /\ b.instanceNumber # Undefined
    THEN a.instanceNumber.v - b.instanceNumber.v
    ELSE 0

Sign(n) == IF n < 0 THEN -1 ELSE IF n > 0 THEN 1 ELSE 0

Range(s) == {s[i] : i \in DOMAIN s}

\* compare is a consistent comparator for these values: Array.prototype.sort
\* defines the order it leaves them in only then
ConsistentComparator(values) ==
    /\ \A a, b \in values : Sign(compare(a, b)) = -Sign(compare(b, a))
    /\ \A a, b, c \in values :
        /\ (compare(a, b) = 0 /\ compare(b, c) = 0) => compare(a, c) = 0
        /\ (compare(a, b) < 0 /\ compare(b, c) < 0) => compare(a, c) < 0

\* x put behind the elements of a sorted array that do not compare greater
RECURSIVE Insert(_, _)
Insert(sorted, x) ==
    IF sorted = << >> \/ compare(sorted[Len(sorted)], x) <= 0
    THEN Append(sorted, x)
    ELSE Append(Insert(SubSeq(sorted, 1, Len(sorted) - 1), x), sorted[Len(sorted)])

\* the stable sort of an array by compare
RECURSIVE StableSort(_)
StableSort(array) ==
    IF array = << >>
    THEN << >>
    ELSE Insert(StableSort(SubSeq(array, 1, Len(array) - 1)), array[Len(array)])

Reorderings(array) ==
    {[i \in DOMAIN array |-> array[p[i]]] : p \in Permutations(DOMAIN array)}

\* as sortDicomFiles, but the array is left in the order it has
Unsorted(dicomFiles) == {dicomFiles}

\* The orders dicomFiles.sort(comparator) can leave the array in: the stable
\* sorted order when the comparator is consistent for the files, and an
\* order the engine chooses when it is not.
sortDicomFiles(dicomFiles) ==
    IF ConsistentComparator(Range(dicomFiles))
    THEN {StableSort(dicomFiles)}
    ELSE Reorderings(dicomFiles)

Series(seriesInstanceUID, dicomFiles) ==
    [seriesInstanceUID |-> seriesInstanceUID, dicomFiles |-> dicomFiles]

\* seriesMap.has(uid) and the position of its entry
HasSeries(map, uid) == \E k \in DOMAIN map : map[k].seriesInstanceUID = uid

\* if (!seriesMap.has(uid)) seriesMap.set(uid, []); seriesMap.get(uid)?.push(dicomFile)
Push(map, uid, dicomFile) ==
    IF HasSeries(map, uid)
    THEN [k \in DOMAIN map |->
            IF map[k].seriesInstanceUID = uid
            THEN Series(uid, Append(map[k].dicomFiles, dicomFile))
            ELSE map[k]]
    ELSE Append(map, Series(uid, <<dicomFile>>))

\* one iteration of the loop over the files: the body of the try, or the catch
LoadFile ==
    /\ seriesArray = NoResult
    /\ fileIndex <= Len(files)
    /\ LET file == files[fileIndex]
           parsed == parseDicom(file)
       IN  IF parsed.t = "throw"
           THEN /\ errorLog' = Append(errorLog, file.name)
                /\ UNCHANGED seriesMap
           ELSE /\ seriesMap' = Push(seriesMap, seriesUID(parsed), DicomFile(file, parsed))
                /\ UNCHANGED errorLog
    /\ fileIndex' = fileIndex + 1
    /\ UNCHANGED <<files, seriesArray>>
    /\ UNCHANGED <<dataSet, call, result, pc, codecCalls, routineCalls, imageFrame, byteArray>>

\* the arrays seriesMap.forEach can build: every series sorted
RECURSIVE SortedSeries(_)
SortedSeries(map) ==
    IF map = << >>
    THEN {<< >>}
    ELSE {<<Series(map[1].seriesInstanceUID, sorted)>> \o rest :
            sorted \in sortDicomFiles(map[1].dicomFiles),
            rest \in SortedSeries(Tail(map))}

\* the loop is over: the series are sorted (in place) and returned
ReturnSeries ==
    /\ seriesArray = NoResult
    /\ fileIndex > Len(files)
    /\ \E sorted \in SortedSeries(seriesMap) :
        /\ seriesMap' = sorted
        /\ seriesArray' = Arr(sorted)
    /\ UNCHANGED <<files, fileIndex, errorLog>>
    /\ UNCHANGED <<dataSet, call, result, pc, codecCalls, routineCalls, imageFrame, byteArray>>

InitLoad ==
    /\ dataSet = EmptyDS
    /\ ParserIdle
    /\ \E contents \in SeqsUpTo(FileContents, MaxFiles) :
        files = [i \in DOMAIN contents |-> File(i, contents[i])]
    /\ fileIndex = 1
    /\ seriesMap = << >>
    /\ errorLog = << >>
    /\ seriesArray = NoResult

NextLoad ==
    \/ LoadFile
    \/ ReturnSeries

SpecLoad == InitLoad /\ [][NextLoad]_vars

(***************************************************************************)
(* What each tier holds for an attribute: the value of the tag there, or   *)
(* null when the tier, its item or the tag is missing.                     *)
(***************************************************************************)
SharedTier(a) == _findStringInGroupSequence("x52009229", a.subsequence, a.tag, 0)
PerFrameTier(a, k) == _findStringInGroupSequence("x52009230", a.subsequence, a.tag, k)
PetTier(a) == _findStringInSequence("x00540022", a.tag)
RootTier(a) == Coalesce(Read(dataSet, a.tag), Null)

\* the first value of a chain of tiers that is not null
FirstHeld(tiers) ==
    IF \E i \in 1..Len(tiers) : tiers[i] # Null
    THEN tiers[CHOOSE i \in 1..Len(tiers) :
                  /\ tiers[i] # Null
                  /\ \A j \in 1..(i - 1) : tiers[j] = Null]
    ELSE Null

SopAttribute == CHOOSE a \in StringAttributes : a.name = "sopInstanceUID"

\* C1: sopInstanceUID(k), which returns the string resolver's result as it
\* is, returns the value held by the first tier that has the tag, in the
\* order shared item 0, per-frame item k, PET item 0, root.
C1_FirstTierWins ==
    call.op = "sopInstanceUID" =>
        result = FirstHeld(<<SharedTier(SopAttribute),
                             PerFrameTier(SopAttribute, call.frameIndex),
                             PetTier(SopAttribute),
                             RootTier(SopAttribute)>>)

\* C2: a numeric accessor returns the flat root tag whenever the root has
\* it, whatever the shared and per-frame functional groups hold.
C2_FlatTagWins ==
    \A a \in FloatAttributes :
        (call.op = a.name /\ RootTier(a) # Null) => result = RootTier(a)

\* a numeric accessor was called at a frame whose per-frame item and the
\* shared item both hold values other than the flat root tag's
C2_Witness ==
    \E a \in FloatAttributes :
        /\ call.op = a.name
        /\ RootTier(a) = Num(0)
        /\ SharedTier(a) = Num(1)
        /\ PerFrameTier(a, call.frameIndex) = Num(2)
        /\ result = Num(0)

\* the attribute is populated at the shared tier and at no other tier
OnlyShared(a) ==
    /\ SharedTier(a) # Null
    /\ RootTier(a) = Null
    /\ PetTier(a) = Null
    /\ \A k \in FrameIndexes : PerFrameTier(a, k) = Null

\* C3: a numeric accessor called at any frame index on an attribute that is
\* populated only at the shared tier returns exactly the shared value.
C3_SharedOnly ==
    \A a \in FloatAttributes :
        (call.op = a.name /\ OnlyShared(a)) => result = SharedTier(a)

\* the attribute is populated at the per-frame tier and at no other tier
OnlyPerFrame(a) ==
    /\ SharedTier(a) = Null
    /\ RootTier(a) = Null
    /\ PetTier(a) = Null

\* C4: sopInstanceUID(k) returns item k's value when the per-frame sequence
\* holds distinct values at item k and at a neighbouring item (stated for an
\* attribute populated at the per-frame tier only, the case most favourable
\* to the claim).
C4_PerFrameExact ==
    (/\ call.op = "sopInstanceUID"
     /\ OnlyPerFrame(SopAttribute)
     /\ PerFrameTier(SopAttribute, call.frameIndex) # Null
     /\ \E n \in {call.frameIndex - 1, call.frameIndex + 1} :
           /\ PerFrameTier(SopAttribute, n) # Null
           /\ PerFrameTier(SopAttribute, n) #
                  PerFrameTier(SopAttribute, call.frameIndex))
    => result = PerFrameTier(SopAttribute, call.frameIndex)

\* what per-frame item k holds under `subsequence` for `tag`, or null
NestedValue(subsequence, tag, k) ==
    _findStringInGroupSequence("x52009230", subsequence, tag, k)

\* the attribute an accessor reads is absent at every tier it searches
AbsentEverywhere(op, k) ==
    CASE op = "referencedSegmentNumber" -> NestedValue("x0062000a", "x0062000b", k) = Null
      [] op = "instanceNumber" ->
            /\ NestedValue("x2005140f", "x00200013", k) = Null
            /\ Read(dataSet, "x00200013") = Undefined
      [] op = "dimensionIndexValues" -> NestedValue("x00209111", "x00209157", k) = Null
      [] op = "inStackPositionNumber" -> NestedValue("x00209111", "x00209057", k) = Null
      [] op = "stackID" -> NestedValue("x00209111", "x00209056", k) = Null
      [] OTHER -> FALSE

\* C5: a per-frame accessor called, at any frame index, for an attribute
\* that is absent at every tier returns null or undefined: it neither throws
\* nor returns a number put in its place.
C5_AbsenceMarker ==
    AbsentEverywhere(call.op, call.frameIndex) => result \in {Null, Undefined}

\* C6: instanceNumber(k) returns the instance number under per-frame item
\* k's sub-sequence x2005140f, item 0, when there is one, and otherwise the
\* root tag x00200013 whenever the root has it.
C6_InstanceNumberFallback ==
    call.op = "instanceNumber" =>
        LET nested == NestedValue("x2005140f", "x00200013", call.frameIndex)
            root == Read(dataSet, "x00200013")
        IN  /\ nested # Null => result = nested
            /\ (nested = Null /\ root # Undefined) => result = root

\* C8: getEncapsulatedImageFrame(k) calls exactly one reconstruction
\* routine: readEncapsulatedImageFrame with the stored table when the basic
\* offset table is not empty; otherwise readEncapsulatedImageFrame with a
\* table from createJPEGBasicOffsetTable when the number of frames differs
\* from the number of fragments; otherwise
\* readEncapsulatedPixelDataFromFragments.  A table is synthesized only in
\* the second case.
C8_RoutinePrecedence ==
    call.op = "getEncapsulatedImageFrame" =>
        LET element == Read(dataSet, "x7fe00010")
            tableLength == IF element.t = "element"
                           THEN LengthOf(element.basicOffsetTable) ELSE Undefined
            fragmentCount == IF element.t = "element"
                             THEN LengthOf(element.fragments) ELSE Undefined
            tableEmpty == tableLength \in {Undefined, Num(0)}
            countsDiffer == Read(dataSet, "x00280008") # fragmentCount
            reconstructions ==
                SelectSeq(routineCalls,
                          LAMBDA c : c.routine # "createJPEGBasicOffsetTable")
            syntheses ==
                SelectSeq(routineCalls,
                          LAMBDA c : c.routine = "createJPEGBasicOffsetTable")
            chosen == reconstructions[1]
        IN  /\ Len(reconstructions) = 1
            /\ chosen.element = element
            /\ chosen.frameIndex = call.frameIndex
            /\ result = Outcome(chosen)
            /\ ~tableEmpty =>
                  /\ chosen.routine = "readEncapsulatedImageFrame"
                  /\ chosen.table = "stored"
            /\ (tableEmpty /\ countsDiffer) =>
                  /\ chosen.routine = "readEncapsulatedImageFrame"
                  /\ chosen.table = "synthesized"
                  /\ routineCalls[1].routine = "createJPEGBasicOffsetTable"
            /\ (tableEmpty /\ ~countsDiffer) =>
                  chosen.routine = "readEncapsulatedPixelDataFromFragments"
            /\ Len(syntheses) = (IF tableEmpty /\ countsDiffer THEN 1 ELSE 0)

\* the frame was read from the fragments, one fragment per frame, with an
\* empty stored table
C8_Witness ==
    /\ call.op = "getEncapsulatedImageFrame"
    /\ call.frameIndex = 1
    /\ Read(dataSet, "x00280008") = Num(2)
    /\ Read(dataSet, "x7fe00010").t = "element"
    /\ Read(dataSet, "x7fe00010").basicOffsetTable = OffsetTable(0)
    /\ Read(dataSet, "x7fe00010").fragments = Fragments(2)
    /\ Len(routineCalls) = 1
    /\ routineCalls[1].routine = "readEncapsulatedPixelDataFromFragments"

\* C7: extractPixelData(k) on native pixel data hands the codec the bytes
\* of frame k only, the range that starts k frames (of bitsAllocated * rows
\* * columns * samplesPerPixel / 8 bytes each) into the pixel-data element.
C7_FrameRange ==
    LET element == Read(dataSet, "x7fe00010")
        frameBytes == FrameBytes(bitsAllocated.v, rows.v, columns.v, samplesPerPixel.v)
        frames == IF Read(dataSet, "x00280008") = Undefined THEN 1
                  ELSE Read(dataSet, "x00280008").v
    IN  (/\ call.op = "extractPixelData"
         /\ element.t = "element"
         /\ element.fragments = Undefined
         /\ call.frameIndex < frames)
        => /\ Len(codecCalls) = 1
           /\ codecCalls[1].pixelData =
                 [byteOffset |-> element.dataOffset + call.frameIndex * frameBytes,
                  length |-> frameBytes]

\* C9: without a pixel-data element, getEncapsulatedImageFrame and
\* extractPixelData fail with the unsupported-encoding error before any
\* frame routine or the codec is called.
C9_MissingPixelData ==
    (/\ call.op \in {"extractPixelData", "getEncapsulatedImageFrame"}
     /\ Read(dataSet, "x7fe00010") = Undefined)
    => /\ result = Throw("UnsupportedEncodingError", Null)
       /\ routineCalls = << >>
       /\ codecCalls = << >>

\* C10: with samplesPerPixel 1, extractPixelData returns the frame the codec
\* resolved with, unchanged, whatever the photometric interpretation and the
\* planar configuration.
C10_SingleSamplePassThrough ==
    (/\ call.op = "extractPixelData"
     /\ imageFrame # NoResult
     /\ samplesPerPixel = Num(1))
    => result = imageFrame

InterpretedAsRGB ==
    {Str(<<"RGB">>), Str(<<"YBR_RCT">>), Str(<<"YBR_ICT">>), Str(<<"YBR_FULL_422">>)}

\* the pixel-major order of plane-major samples [R.., G.., B..] of n pixels
PixelMajor(in) ==
    LET n == Len(in) \div 3 IN
    [j \in 1..Len(in) |-> in[((j - 1) % 3) * n + ((j - 1) \div 3) + 1]]

\* C11: with an interpretation of {RGB, YBR_RCT, YBR_ICT, YBR_FULL_422},
\* planar configuration 1 and decoded data of 3n samples in planes,
\* extractPixelData returns an array of the same kind and length with
\* out[3i] = in[i], out[3i+1] = in[n+i], out[3i+2] = in[2n+i].
C11_Deinterleaved ==
    (/\ call.op = "extractPixelData"
     /\ imageFrame # NoResult
     /\ imageFrame.kind \in ConvertibleKinds
     /\ Len(imageFrame.v) % 3 = 0
     /\ samplesPerPixel = Num(3)
     /\ photometricInterpretation \in InterpretedAsRGB
     /\ planarConfiguration = Num(1))
    => result = TypedArray(imageFrame.kind, PixelMajor(imageFrame.v))

\* the combination is handled by none of the pass-through, de-interleave
\* and YBR_FULL rules
UnhandledCombination ==
    /\ photometricInterpretation # Str(<<"YBR_FULL">>)
    /\ \/ photometricInterpretation \notin InterpretedAsRGB
       \/ planarConfiguration \notin {Null, Num(0), Num(1)}

\* C12: for multi-sample data, a combination of photometric interpretation
\* and planar configuration that no rule handles makes extractPixelData
\* fail with an error naming the interpretation; no samples are returned.
C12_UnsupportedColorSpace ==
    (/\ call.op = "extractPixelData"
     /\ imageFrame # NoResult
     /\ Len(imageFrame.v) % 3 = 0
     /\ samplesPerPixel = Num(3)
     /\ UnhandledCombination)
    => result = Throw("photometric interpolation not supported",
                      photometricInterpretation)

\* the files of the input that are read and parsed
Parses(file) == file.content.t = "dataSet"

\* the series UID a parsed file holds: its tag, or "unknown" when the file
\* has none (no tag, or a blank one)
HeldSeriesUID(file) ==
    IF "x0020000e" \in DOMAIN file.content.vals
       /\ file.content.vals["x0020000e"] # Str(<< >>)
    THEN file.content.vals["x0020000e"]
    ELSE Str(<<"unknown">>)

\* the places a file has in the returned series
PlacesOf(file) ==
    {<<k, j>> \in (DOMAIN seriesArray.v) \X (1..MaxFiles) :
        /\ j <= Len(seriesArray.v[k].dicomFiles)
        /\ seriesArray.v[k].dicomFiles[j].file = file}

\* C13: the series preloader returns partition the parsed files by series
\* UID: every parsed file has exactly one place in them, every place holds
\* a parsed file of the input with the UID of its series, no two series
\* have the same UID, and a file with no series UID is in the series
\* "unknown".
C13_SeriesPartition ==
    seriesArray # NoResult =>
        /\ \A i \in DOMAIN files :
            Parses(files[i]) => Cardinality(PlacesOf(files[i])) = 1
        /\ \A k \in DOMAIN seriesArray.v :
            \A j \in DOMAIN seriesArray.v[k].dicomFiles :
                LET file == seriesArray.v[k].dicomFiles[j].file
                IN  /\ file \in Range(files)
                    /\ Parses(file)
                    /\ HeldSeriesUID(file) = seriesArray.v[k].seriesInstanceUID
        /\ \A k, l \in DOMAIN seriesArray.v :
            seriesArray.v[k].seriesInstanceUID = seriesArray.v[l].seriesInstanceUID
                => k = l

C13_Witness ==
    /\ seriesArray # NoResult
    /\ Len(seriesArray.v) = 2
    /\ \E k \in DOMAIN seriesArray.v :
        /\ seriesArray.v[k].seriesInstanceUID = Str(<<"unknown">>)
        /\ Len(seriesArray.v[k].dicomFiles) = 2
        /\ "x0020000e" \notin DOMAIN seriesArray.v[k].dicomFiles[1].file.content.vals

\* C14: every returned series is in the order of the three-tier comparator:
\* where the comparator is consistent for the files of the series no file
\* is before one it compares greater than, and a series whose files all
\* have sliceLocation is in non-decreasing order of sliceLocation, whatever
\* the order of the input and the other keys.
C14_SeriesOrder ==
    seriesArray # NoResult =>
        \A k \in DOMAIN seriesArray.v :
            LET sorted == seriesArray.v[k].dicomFiles IN
            /\ ConsistentComparator(Range(sorted)) =>
                \A i, j \in DOMAIN sorted : i < j => compare(sorted[i], sorted[j]) <= 0
            /\ (\A i \in DOMAIN sorted : sorted[i].sliceLocation # Undefined) =>
                \A i, j \in DOMAIN sorted :
                    i < j => sorted[i].sliceLocation.v <= sorted[j].sliceLocation.v

C14_Witness ==
    /\ seriesArray # NoResult
    /\ \E k \in DOMAIN seriesArray.v :
        LET sorted == seriesArray.v[k].dicomFiles IN
        /\ Len(sorted) = 3
        /\ \A i \in DOMAIN sorted : sorted[i].sliceLocation # Undefined
        /\ sorted[1].sliceLocation.v < sorted[3].sliceLocation.v
        /\ sorted[1].file.name > sorted[3].file.name
        /\ sorted[1].instanceNumber = Num(2)
        /\ sorted[3].instanceNumber = Num(1)

\* a is a file without sliceLocation and with instanceNumber, b one with
\* sliceLocation
LocationAgainstNumber(a, b) ==
    /\ a.sliceLocation = Undefined
    /\ a.instanceNumber # Undefined
    /\ b.sliceLocation # Undefined

\* C15: a file that lacks sliceLocation and has instanceNumber compares as
\* tied with any file that has sliceLocation, and the two are in the sorted
\* series in the order they had in the input.
C15_TiedAcrossTiers ==
    seriesArray # NoResult =>
        \A k \in DOMAIN seriesArray.v :
            LET sorted == seriesArray.v[k].dicomFiles IN
            \A i, j \in DOMAIN sorted :
                LocationAgainstNumber(sorted[i], sorted[j]) =>
                    /\ compare(sorted[i], sorted[j]) = 0
                    /\ i < j <=> sorted[i].file.name < sorted[j].file.name

\* the pair shares no key: not imagePositionZ, not instanceNumber
SharesNoKey(a, b) ==
    /\ a.imagePositionZ = Undefined \/ b.imagePositionZ = Undefined
    /\ a.instanceNumber = Undefined \/ b.instanceNumber = Undefined

\* C15, amended: such a pair is tied only when it shares neither
\* imagePositionZ nor instanceNumber; a pair that shares one is compared by
\* imagePositionZ if both have it and by instanceNumber otherwise.  In a
\* series of just the two files a tied pair keeps the order of the input
\* and another pair is in the order of the key compared.
C15_TiedWhenNoSharedKey ==
    seriesArray # NoResult =>
        \A k \in DOMAIN seriesArray.v :
            LET sorted == seriesArray.v[k].dicomFiles IN
            \A i, j \in DOMAIN sorted :
                LET a == sorted[i]
                    b == sorted[j]
                    difference ==
                        IF SharesNoKey(a, b) THEN 0
                        ELSE IF a.imagePositionZ # Undefined /\ b.imagePositionZ # Undefined
                        THEN a.imagePositionZ.v - b.imagePositionZ.v
                        ELSE a.instanceNumber.v - b.instanceNumber.v
                IN  LocationAgainstNumber(a, b) =>
                        /\ compare(a, b) = difference
                        /\ (Len(sorted) = 2 /\ difference = 0)
                            => (i < j <=> a.file.name < b.file.name)
                        /\ (Len(sorted) = 2 /\ difference < 0) => i < j
                        /\ (Len(sorted) = 2 /\ difference > 0) => j < i

C15_Witness ==
    /\ seriesArray # NoResult
    /\ \E k \in DOMAIN seriesArray.v :
        LET sorted == seriesArray.v[k].dicomFiles IN
        /\ Len(sorted) = 2
        /\ LocationAgainstNumber(sorted[2], sorted[1])
        /\ SharesNoKey(sorted[2], sorted[1])
        /\ sorted[1].file.name < sorted[2].file.name

\* the map preloader builds from files that all parse
RECURSIVE Grouped(_)
Grouped(parsed) ==
    IF parsed = << >>
    THEN << >>
    ELSE LET file == parsed[Len(parsed)]
         IN  Push(Grouped(SubSeq(parsed, 1, Len(parsed) - 1)),
                  seriesUID(file.content), DicomFile(file, file.content))

\* the names of the files that fail, in the order of the input
RECURSIVE FailedNames(_)
FailedNames(input) ==
    IF input = << >>
    THEN << >>
    ELSE LET rest == FailedNames(SubSeq(input, 1, Len(input) - 1))
             file == input[Len(input)]
         IN  IF Parses(file) THEN rest ELSE Append(rest, file.name)

\* C16: a file whose read or parse fails is logged and is in no returned
\* series, and the batch completes: the series returned are series that
\* preloader returns for the input without the failing files.
C16_FailingFileSkipped ==
    seriesArray # NoResult =>
        /\ fileIndex = Len(files) + 1
        /\ errorLog = FailedNames(files)
        /\ \A i \in DOMAIN files : ~Parses(files[i]) => PlacesOf(files[i]) = {}
        /\ seriesArray.v \in SortedSeries(Grouped(SelectSeq(files, Parses)))

C16_Witness ==
    /\ seriesArray # NoResult
    /\ Len(files) = 3
    /\ Parses(files[1])
    /\ ~Parses(files[2])
    /\ Parses(files[3])
    /\ errorLog = <<2>>
    /\ Len(seriesArray.v) = 1
    /\ Len(seriesArray.v[1].dicomFiles) = 2

\* C17: in a run of extractPixelData the attribute reads that feed the codec
\* are done when the codec is invoked (it is invoked once, with their
\* values), colour normalization starts only after the codec resolved, and
\* a failure of the codec or of the normalization is the outcome of the
\* call: samples are returned only when neither failed, and the codec is
\* not invoked again.
C17_ReadsCodecNormalization ==
    call.op = "extractPixelData" =>
        /\ Len(codecCalls) <= 1
        /\ pc = "decoding" =>
            /\ codecCalls = <<[pixelData |-> [byteOffset |-> Read(dataSet, "x7fe00010").dataOffset,
                                              length |-> Read(dataSet, "x7fe00010").length],
                               imageInfo |-> [rows |-> rows,
                                              columns |-> columns,
                                              bitsAllocated |-> bitsAllocated,
                                              samplesPerPixel |-> samplesPerPixel,
                                              signed |-> (pixelRepresentation = Num(1))],
                               transferSyntaxUID |-> transferSyntaxUID]>>
            /\ imageFrame = NoResult
            /\ result = NoResult
        /\ pc = "idle" =>
            /\ imageFrame = NoResult => result.t = "throw"
            /\ imageFrame # NoResult =>
                /\ Len(codecCalls) = 1
                /\ IF numberOfChannels > 1
                   THEN result = _convertColorSpace(imageFrame)
                   ELSE result = imageFrame
            /\ result.t = "typedArray" =>
                /\ imageFrame # NoResult
                /\ numberOfChannels > 1 => _convertColorSpace(imageFrame).t # "throw"

C17_Witness ==
    /\ call.op = "extractPixelData"
    /\ pc = "idle"
    /\ Len(codecCalls) = 1
    /\ imageFrame # NoResult
    /\ numberOfChannels > 1
    /\ result.t = "throw"

\* C18: the backing byte buffer is read-only for the lifetime of the
\* parser: after any sequence of accessor and extractPixelData calls, with
\* any codec, its bytes are the bytes it was constructed with.
C18_BackingBufferReadOnly ==
    byteArray = BackingBytes

====
